---- MODULE Spec2Model ----
(***************************************************************************)
(* Ingress provisioning (resetIngresses / createIngress, actions/user.ts)  *)
(* and the LiveKit webhook handler (POST, app/api/webhooks/livekit/        *)
(* route.ts), together with the provider (ingresses, rooms, emitted        *)
(* events) and the stream table they act on.                               *)
(*                                                                         *)
(* One action is one awaited call of the code together with the            *)
(* synchronous code that follows it up to the next await.                  *)
(***************************************************************************)
EXTENDS Integers, Sequences, FiniteSets, TLC

\* ------------------------------------------------------------------ bounds
MaxQueue == 1          \* events emitted by the provider and not yet delivered

Identities == {"U1", "U2"}     \* broadcaster identities (self.id)
Procs == {"p1", "p2"}          \* invocations of createIngress

\* ------------------------------------------------------------ value domains
Null == 0                      \* null / undefined / "" (all falsy in the code)
NoStream == [none |-> TRUE]    \* no row of the stream table for the user
NoIngress == [none |-> TRUE]   \* the local `ingress` before createIngress answered
Unset == "unset"               \* a local of createIngress not assigned yet
NoCode == "no code"            \* error.code of an error that carries none

\* A webhook event: its kind and event.ingressInfo?.ingressId.
Event(kind, id) == [event |-> kind, ingressId |-> id]

RTMP_INPUT == "RTMP_INPUT"
WHIP_INPUT == "WHIP_INPUT"
URL_INPUT == "URL_INPUT"
IngressInputs == {RTMP_INPUT, WHIP_INPUT, URL_INPUT}

\* An option createIngress leaves undefined (video or audio).
NoTrack == [source |-> "undefined", preset |-> "undefined"]

ErrNoResponse == "LiveKit failed to create ingress - no response received"
ErrIncomplete == "LiveKit created ingress but did not provide URL or stream key"
ErrNotFound == "Stream not found in database. Please contact support."
ErrDefault == "Failed to create stream ingress"
ErrProvider == "provider error"       \* message of an error thrown by a provider call
ErrSelf == "Unauthorized"             \* message of the error thrown by getSelf

\* Ingresses that exist at the provider before any call; ids 1..3.
NewIngress(id, room, participant, url, key) ==
  [ingressId |-> id, roomName |-> room, participantIdentity |-> participant,
   url |-> url, streamKey |-> key, started |-> FALSE]

InitialIngresses ==
  { [NewIngress(id, "U1", "U1", id, id) EXCEPT !.started = live] :
      id \in {1}, live \in BOOLEAN }
  \cup { [NewIngress(id, "U1", "U2", id, id) EXCEPT !.started = live] :
      id \in {2}, live \in BOOLEAN }
  \cup { [NewIngress(id, "U2", "U2", id, id) EXCEPT !.started = live] :
      id \in {3}, live \in BOOLEAN }

InitialIds == {i.ingressId : i \in InitialIngresses}
FirstNewId == Cardinality(InitialIds) + 1

VARIABLES
  ingresses,     \* provider: set of ingress resources
  rooms,         \* provider: names of the rooms that exist
  nextId,        \* provider: id of the next ingress it creates
  events,        \* provider: webhook events emitted and not yet delivered (FIFO)
  stream,        \* db.stream: [Identities -> row or NoStream], keyed by userId
  response,      \* webhook handler: the last request it answered and its status
  pc,            \* per invocation: the call it is waiting on
  self,          \* per invocation: self.id
  ingressType,   \* per invocation: the argument of createIngress, from its first use
  options,       \* per invocation: `options` passed to ingressClient.createIngress
  listedI,       \* per invocation: `ingresses` of resetIngresses (snapshot)
  listedR,       \* per invocation: `rooms` of resetIngresses (snapshot)
  idxI,          \* per invocation: position in listedI of the pending deleteIngress
  idxR,          \* per invocation: position in listedR of the pending deleteRoom
  ingress,       \* per invocation: `ingress` returned by ingressClient.createIngress
  error,         \* per invocation: message of the error createIngress threw
  overlapped     \* history: the invocation ran while another one for the same self.id ran

vars == <<ingresses, rooms, nextId, events, stream, response, pc, self, ingressType, options,
          listedI, listedR, idxI, idxR, ingress, error, overlapped>>

provider == <<ingresses, rooms, nextId, events>>
locals == <<self, ingressType, options, listedI, listedR, idxI, idxR, ingress, error>>


\* --------------------------------------------------------------- helpers
\* What a listing tells about an ingress (the fields resetIngresses reads).
Info(i) ==
  [ingressId |-> i.ingressId, roomName |-> i.roomName,
   participantIdentity |-> i.participantIdentity]

RECURSIVE ById(_)
\* The provider lists ingresses in the order of their ids.
ById(S) ==
  IF S = {} THEN <<>>
  ELSE LET m == CHOOSE x \in S : \A y \in S : x.ingressId <= y.ingressId
       IN <<m>> \o ById(S \ {m})

\* The provider lists rooms in the order of their names.
ByName(S) == SelectSeq(<<"U1", "U2">>, LAMBDA n : n \in S)

Username(u) == <<"name", u>>

\* The ingress loop without its safety check.
OwnsIngressUnchecked(i, hostIdentity) == TRUE

\* user.ts:460, the safety check of the ingress loop.
OwnsIngress(i, hostIdentity) ==
  i.roomName = hostIdentity \/ i.participantIdentity = hostIdentity

\* An ingress loop that deletes by room name only.
DeletesIngressOfRoom(i, hostIdentity) ==
  i.ingressId # Null /\ i.roomName = hostIdentity

\* user.ts:455 and :460: the ingress gets a deleteIngress call.
DeletesIngress(i, hostIdentity) ==
  i.ingressId # Null /\ OwnsIngress(i, hostIdentity)

\* The room loop without its check.
DeletesRoomUnchecked(name, hostIdentity) == TRUE

\* user.ts:470, the check of the room loop.
DeletesRoom(name, hostIdentity) == name = hostIdentity

\* The least position among hits, or n + 1 when there is none: where a loop
\* over n elements stops next.
FirstOf(hits, n) ==
  IF hits = {} THEN n + 1
  ELSE CHOOSE k \in hits : \A j \in hits : k <= j

\* An ingress loop that leaves after its first deletion.
NextIngressAtBreaks(seq, from, hostIdentity) ==
  IF from = 0
  THEN FirstOf({k \in 1..Len(seq) : DeletesIngress(seq[k], hostIdentity)}, Len(seq))
  ELSE Len(seq) + 1

\* user.ts:454-467: the position after `from` of the next listed ingress that
\* gets a deleteIngress call.
NextIngressAt(seq, from, hostIdentity) ==
  FirstOf({k \in (from + 1)..Len(seq) : DeletesIngress(seq[k], hostIdentity)}, Len(seq))

\* user.ts:469-476: the position after `from` of the next listed room that
\* gets a deleteRoom call.
NextRoomAt(seq, from, hostIdentity) ==
  FirstOf({k \in (from + 1)..Len(seq) : DeletesRoom(seq[k], hostIdentity)}, Len(seq))

\* An ingress loop that passes over what it does not own without a message.
SkippedIngressesSilent(seq, at, hostIdentity) == {}

\* user.ts:455, :460 and :463-465: the listed ingresses the loop, standing at
\* position `at`, has logged as skipped (console.warn "SKIPPING deletion").
SkippedIngresses(seq, at, hostIdentity) ==
  {seq[k] : k \in {j \in 1..Len(seq) :
                     /\ j < at
                     /\ seq[j].ingressId # Null
                     /\ ~OwnsIngress(seq[j], hostIdentity)}}

\* user.ts:470 and :473-475: the listed rooms the loop, standing at position
\* `at`, has logged as skipped.
SkippedRooms(seq, at, hostIdentity) ==
  {seq[k] : k \in {j \in 1..Len(seq) : j < at /\ seq[j] # hostIdentity}}

\* Options that put every ingress into one room.
OptionsSharedRoom(id, type) ==
  [name |-> Username(id), roomName |-> "lobby", participantName |-> Username(id),
   participantIdentity |-> id,
   bypassTranscoding |-> (type = WHIP_INPUT),
   video |-> IF type = WHIP_INPUT THEN NoTrack
             ELSE [source |-> "CAMERA", preset |-> "H264_1080P_30FPS_3_LAYERS"],
   audio |-> IF type = WHIP_INPUT THEN NoTrack
             ELSE [source |-> "MICROPHONE", preset |-> "OPUS_STEREO_96KBPS"]]

\* Options that transcode the RTMP input only.
OptionsTranscodeRtmp(id, type) ==
  [name |-> Username(id), roomName |-> id, participantName |-> Username(id),
   participantIdentity |-> id,
   bypassTranscoding |-> (type # RTMP_INPUT),
   video |-> IF type # RTMP_INPUT THEN NoTrack
             ELSE [source |-> "CAMERA", preset |-> "H264_1080P_30FPS_3_LAYERS"],
   audio |-> IF type # RTMP_INPUT THEN NoTrack
             ELSE [source |-> "MICROPHONE", preset |-> "OPUS_STEREO_96KBPS"]]

\* user.ts:485-503, the options createIngress builds.
Options(id, type) ==
  [name |-> Username(id), roomName |-> id, participantName |-> Username(id),
   participantIdentity |-> id,
   bypassTranscoding |-> (type = WHIP_INPUT),
   video |-> IF type = WHIP_INPUT THEN NoTrack
             ELSE [source |-> "CAMERA", preset |-> "H264_1080P_30FPS_3_LAYERS"],
   audio |-> IF type = WHIP_INPUT THEN NoTrack
             ELSE [source |-> "MICROPHONE", preset |-> "OPUS_STEREO_96KBPS"]]

\* A validation that asks for the url only / that rejects only an answer
\* lacking both.
IncompleteUrlOnly(i) == i.url = Null

IncompleteBoth(i) == i.url = Null /\ i.streamKey = Null

\* user.ts:514.
Incomplete(i) == i.url = Null \/ i.streamKey = Null

\* user.ts:543, error.message?.includes("LiveKit").
IncludesLiveKit(message) == message \in {ErrNoResponse, ErrIncomplete}

\* A catch block that throws its own message whatever it caught.
CaughtAsDefault(message, code) ==
  IF IncludesLiveKit(message) THEN message
  ELSE IF code = "P2025" THEN ErrNotFound
  ELSE ErrDefault

\* A catch block without the test of error.code.
CaughtByMessage(message, code) ==
  IF IncludesLiveKit(message) THEN message
  ELSE IF message # "" THEN message
  ELSE ErrDefault

\* user.ts:539-552, the message of the error the catch block throws.
Caught(message, code) ==
  IF IncludesLiveKit(message) THEN message
  ELSE IF code = "P2025" THEN ErrNotFound
  ELSE IF message # "" THEN message
  ELSE ErrDefault

\* A createIngress that does not wait for resetIngresses.
PendingCreate(seqI, seqR, i, r) == "createIngress"

\* The call resetIngresses/createIngress waits on once the ingress loop stands
\* at position i of seqI and the room loop at position r of seqR
\* (user.ts:454-476, then :505).
Pending(seqI, seqR, i, r) ==
  IF i <= Len(seqI) THEN "deleteIngress"
  ELSE IF r <= Len(seqR) THEN "deleteRoom"
  ELSE "createIngress"

Active(p) == pc[p] \notin {"idle", "done", "failed"}

Row(id, url, key, live) ==
  [ingressId |-> id, serverUrl |-> url, streamKey |-> key, isLive |-> live]

\* The rows the stream table can hold for user u before any call: the one
\* that holds the credentials of u's own initial ingress and is live when that
\* ingress is started; when u has no such ingress, one never provisioned or
\* none.
InitialRows(u, present) ==
  LET own == {j \in present : j.roomName = u /\ j.participantIdentity = u}
  IN IF own = {} THEN {NoStream, Row(Null, Null, Null, FALSE)}
     ELSE {Row(i.ingressId, i.url, i.streamKey, i.started) : i \in own}

TypeOK ==
  /\ nextId \in Nat
  /\ rooms \subseteq Identities
  /\ Len(events) <= MaxQueue
  /\ response.status \in {Null, 200, 400, 500}
  /\ response.n \in {0, 1}
  /\ pc \in [Procs -> {"idle", "listIngress", "listRooms", "deleteIngress",
                       "deleteRoom", "createIngress", "update", "done", "failed",
                       "waiting"}]

Init ==
  /\ ingresses \in {S \in SUBSET InitialIngresses :
                      \A i, j \in S : i.ingressId = j.ingressId => i = j}
  /\ rooms = {i.roomName : i \in ingresses}
  /\ nextId = FirstNewId
  /\ events = <<>>
  /\ stream \in {f \in [Identities -> UNION {InitialRows(u, ingresses) : u \in Identities}] :
                   \A u \in Identities : f[u] \in InitialRows(u, ingresses)}
  /\ response = [n |-> 0, authorization |-> FALSE, verifies |-> FALSE,
                  event |-> Event("none", Null), status |-> Null]
  /\ pc = [p \in Procs |-> "idle"]
  /\ self = [p \in Procs |-> Unset]
  /\ ingressType = [p \in Procs |-> Unset]
  /\ options = [p \in Procs |-> Unset]
  /\ listedI = [p \in Procs |-> <<>>]
  /\ listedR = [p \in Procs |-> <<>>]
  /\ idxI = [p \in Procs |-> 0]
  /\ idxR = [p \in Procs |-> 0]
  /\ ingress = [p \in Procs |-> NoIngress]
  /\ error = [p \in Procs |-> Unset]
  /\ overlapped = [p \in Procs |-> FALSE]

\* ------------------------------------------------------- createIngress
\* The locals of resetIngresses and the argument of createIngress are gone
\* once createIngress has thrown.
Forget(p) ==
  /\ ingressType' = [ingressType EXCEPT ![p] = Unset]
  /\ options' = [options EXCEPT ![p] = Unset]
  /\ listedI' = [listedI EXCEPT ![p] = <<>>]
  /\ listedR' = [listedR EXCEPT ![p] = <<>>]
  /\ idxI' = [idxI EXCEPT ![p] = 0]
  /\ idxR' = [idxR EXCEPT ![p] = 0]

\* user.ts:539-552: an error thrown inside the try block ends the invocation
\* with the error the catch block throws.
Throw(p, message, code) ==
  /\ pc' = [pc EXCEPT ![p] = "failed"]
  /\ error' = [error EXCEPT ![p] = Caught(message, code)]
  /\ Forget(p)

\* The invocations are interchangeable: p2 is the one that is called second.
Before(q, p) == q = "p1" /\ p = "p2"

\* user.ts:479-481: createIngress(ingressType) is called and getSelf answers.
GetSelf(p) ==
  /\ pc[p] = "idle"
  /\ \A q \in Procs : Before(q, p) => pc[q] # "idle"
  /\ \E u \in Identities :
       \/ /\ Throw(p, ErrSelf, NoCode)
          /\ UNCHANGED <<self, overlapped>>
       \/ /\ self' = [self EXCEPT ![p] = u]
          /\ pc' = [pc EXCEPT ![p] = "listIngress"]
          /\ overlapped' =
               [q \in Procs |->
                  IF q = p THEN \E r \in Procs \ {p} : Active(r) /\ self[r] = u
                  ELSE overlapped[q] \/ (Active(q) /\ self[q] = u)]
          /\ UNCHANGED <<error, ingressType, options, listedI, listedR, idxI, idxR>>
  /\ UNCHANGED <<provider, stream, response, ingress>>

\* A listing that leaves out the ingresses that have no url or no stream key.
ListIngressUsable(p) ==
  /\ pc[p] = "listIngress"
  /\ \/ Throw(p, ErrProvider, NoCode)
     \/ /\ \E filtered \in BOOLEAN :
             listedI' = [listedI EXCEPT ![p] =
                ById({Info(i) : i \in {j \in ingresses :
                        /\ filtered => j.roomName = self[p]
                        /\ j.url # Null /\ j.streamKey # Null}})]
        /\ pc' = [pc EXCEPT ![p] = "listRooms"]
        /\ UNCHANGED <<error, ingressType, options, listedR, idxI, idxR>>
  /\ UNCHANGED <<provider, stream, response, self, ingress, overlapped>>

\* user.ts:447-449: ingressClient.listIngress({roomName: hostIdentity}) answers
\* with the ingresses of the room or, the filter failing, with all ingresses.
ListIngress(p) ==
  /\ pc[p] = "listIngress"
  /\ \/ Throw(p, ErrProvider, NoCode)
     \/ /\ \E filtered \in BOOLEAN :
             listedI' = [listedI EXCEPT ![p] =
                ById({Info(i) : i \in {j \in ingresses : filtered => j.roomName = self[p]}})]
        /\ pc' = [pc EXCEPT ![p] = "listRooms"]
        /\ UNCHANGED <<error, ingressType, options, listedR, idxI, idxR>>
  /\ UNCHANGED <<provider, stream, response, self, ingress, overlapped>>

\* user.ts:451-460 (and :469-470, :505 when nothing is to delete):
\* roomService.listRooms([hostIdentity]) answers (with the room of that name
\* or, the filter failing, with all rooms), and the loops run up to the first
\* delete call.
ListRooms(p) ==
  /\ pc[p] = "listRooms"
  /\ \/ Throw(p, ErrProvider, NoCode)
     \/ /\ \E filtered \in BOOLEAN :
             listedR' = [listedR EXCEPT ![p] =
                ByName({n \in rooms : filtered => n = self[p]})]
        /\ idxI' = [idxI EXCEPT ![p] = NextIngressAt(listedI[p], 0, self[p])]
        /\ idxR' = [idxR EXCEPT ![p] = NextRoomAt(listedR'[p], 0, self[p])]
        /\ pc' = [pc EXCEPT ![p] = Pending(listedI[p], listedR'[p], idxI'[p], idxR'[p])]
        /\ UNCHANGED <<error, ingressType, options, listedI>>
  /\ UNCHANGED <<provider, stream, response, self, ingress, overlapped>>

\* user.ts:462 (then :454-470, :505): ingressClient.deleteIngress answers for
\* the listed ingress at idxI, and the loops run up to the next delete call.
\* The provider ends a started ingress it deletes and emits ingress_ended
\* (the call answers once the event queue, bounded by MaxQueue, has room).
DeleteIngress(p) ==
  /\ pc[p] = "deleteIngress"
  /\ LET id == listedI[p][idxI[p]].ingressId
         found == {i \in ingresses : i.ingressId = id}
     IN \/ /\ Throw(p, ErrProvider, NoCode)
           /\ UNCHANGED provider
        \/ /\ found # {}
           /\ \E i \in found :
                /\ ingresses' = ingresses \ {i}
                /\ IF i.started
                   THEN /\ Len(events) < MaxQueue
                        /\ events' = Append(events, Event("ingress_ended", id))
                   ELSE events' = events
           /\ idxI' = [idxI EXCEPT ![p] = NextIngressAt(listedI[p], idxI[p], self[p])]
           /\ pc' = [pc EXCEPT ![p] = Pending(listedI[p], listedR[p], idxI'[p], idxR[p])]
           /\ UNCHANGED <<rooms, nextId, error, ingressType, options, listedI, listedR, idxR>>
  /\ UNCHANGED <<stream, response, self, ingress, overlapped>>

\* user.ts:472 (then :469-470, :505): roomService.deleteRoom answers for the
\* listed room at idxR, and the loop runs up to the next delete call.
DeleteRoom(p) ==
  /\ pc[p] = "deleteRoom"
  /\ LET name == listedR[p][idxR[p]]
     IN \/ /\ Throw(p, ErrProvider, NoCode)
           /\ UNCHANGED provider
        \/ /\ name \in rooms
           /\ rooms' = rooms \ {name}
           /\ idxR' = [idxR EXCEPT ![p] = NextRoomAt(listedR[p], idxR[p], self[p])]
           /\ pc' = [pc EXCEPT ![p] = Pending(listedI[p], listedR[p], idxI[p], idxR'[p])]
           /\ UNCHANGED <<ingresses, nextId, events, error, ingressType, options, listedI,
                          listedR, idxI>>
  /\ UNCHANGED <<stream, response, self, ingress, overlapped>>

\* A createIngress that compensates: when the create step fails, it clears
\* the credentials of the row, which belong to an ingress it has deleted.
CreateIngressClearsRow(p) ==
  /\ pc[p] = "createIngress"
  /\ \E type \in IngressInputs :
       LET built == Options(self[p], type)
           cleared == IF stream[self[p]] = NoStream THEN stream
                      ELSE [stream EXCEPT ![self[p]] = Row(Null, Null, Null, @.isLive)]
       IN \/ /\ Throw(p, ErrProvider, NoCode)
             /\ stream' = cleared
             /\ UNCHANGED <<provider, ingress>>
          \/ /\ Throw(p, ErrNoResponse, NoCode)
             /\ stream' = cleared
             /\ UNCHANGED <<provider, ingress>>
          \/ \E url \in {Null, nextId}, key \in {Null, nextId} :
               LET created == NewIngress(nextId, built.roomName,
                                         built.participantIdentity, url, key)
               IN /\ ingresses' = ingresses \cup {created}
                  /\ nextId' = nextId + 1
                  /\ ingress' = [ingress EXCEPT ![p] = created]
                  /\ IF Incomplete(created)
                     THEN Throw(p, ErrIncomplete, NoCode) /\ stream' = cleared
                     ELSE /\ pc' = [pc EXCEPT ![p] = "update"]
                          /\ ingressType' = [ingressType EXCEPT ![p] = type]
                          /\ options' = [options EXCEPT ![p] = built]
                          /\ UNCHANGED <<error, listedI, listedR, idxI, idxR, stream>>
                  /\ UNCHANGED <<rooms, events>>
  /\ UNCHANGED <<response, self, overlapped>>

\* user.ts:485-516: the options are built from ingressType (read here for the
\* first time), ingressClient.createIngress(ingressType, options) answers (an
\* error, nothing, or the ingress it created, whose url or streamKey may be
\* missing), and the answer is validated.
CreateIngress(p) ==
  /\ pc[p] = "createIngress"
  /\ \E type \in IngressInputs :
       LET built == Options(self[p], type)
       IN \/ /\ Throw(p, ErrProvider, NoCode)
             /\ UNCHANGED <<provider, ingress>>
          \/ /\ Throw(p, ErrNoResponse, NoCode)
             /\ UNCHANGED <<provider, ingress>>
          \/ \E url \in {Null, nextId}, key \in {Null, nextId} :
               LET created == NewIngress(nextId, built.roomName,
                                         built.participantIdentity, url, key)
               IN /\ ingresses' = ingresses \cup {created}
                  /\ nextId' = nextId + 1
                  /\ ingress' = [ingress EXCEPT ![p] = created]
                  /\ IF Incomplete(created)
                     THEN Throw(p, ErrIncomplete, NoCode)
                     ELSE /\ pc' = [pc EXCEPT ![p] = "update"]
                          /\ ingressType' = [ingressType EXCEPT ![p] = type]
                          /\ options' = [options EXCEPT ![p] = built]
                          /\ UNCHANGED <<error, listedI, listedR, idxI, idxR>>
                  /\ UNCHANGED <<rooms, events>>
  /\ UNCHANGED <<stream, response, self, overlapped>>

\* A row update that also marks the row as not live.
UpdateOffline(p) ==
  /\ pc[p] = "update"
  /\ \/ /\ Throw(p, "database error", NoCode)
        /\ UNCHANGED stream
     \/ /\ stream[self[p]] = NoStream
        /\ Throw(p, "Record to update not found.", "P2025")
        /\ UNCHANGED stream
     \/ /\ stream[self[p]] # NoStream
        /\ stream' = [stream EXCEPT ![self[p]] =
             Row(ingress[p].ingressId, ingress[p].url, ingress[p].streamKey, FALSE)]
        /\ pc' = [pc EXCEPT ![p] = "done"]
        /\ UNCHANGED <<error, ingressType, options, listedI, listedR, idxI, idxR>>
  /\ UNCHANGED <<provider, response, self, ingress, overlapped>>

\* A row update that leaves the row alone when it already holds a newer
\* ingress (the highest ingress id wins, not the last write).
UpdateNewest(p) ==
  /\ pc[p] = "update"
  /\ \/ /\ Throw(p, "database error", NoCode)
        /\ UNCHANGED stream
     \/ /\ stream[self[p]] = NoStream
        /\ Throw(p, "Record to update not found.", "P2025")
        /\ UNCHANGED stream
     \/ /\ stream[self[p]] # NoStream
        /\ stream' = [stream EXCEPT ![self[p]] =
             IF @.ingressId > ingress[p].ingressId THEN @
             ELSE Row(ingress[p].ingressId, ingress[p].url, ingress[p].streamKey, @.isLive)]
        /\ pc' = [pc EXCEPT ![p] = "done"]
        /\ UNCHANGED <<error, ingressType, options, listedI, listedR, idxI, idxR>>
  /\ UNCHANGED <<provider, response, self, ingress, overlapped>>

\* user.ts:528-538: db.stream.update({where: {userId: self.id}, ...}) answers
\* (Prisma throws P2025 when no row matches), and createIngress returns.
Update(p) ==
  /\ pc[p] = "update"
  /\ \/ /\ Throw(p, "database error", NoCode)
        /\ UNCHANGED stream
     \/ /\ stream[self[p]] = NoStream
        /\ Throw(p, "Record to update not found.", "P2025")
        /\ UNCHANGED stream
     \/ /\ stream[self[p]] # NoStream
        /\ stream' = [stream EXCEPT ![self[p]] =
             Row(ingress[p].ingressId, ingress[p].url, ingress[p].streamKey, @.isLive)]
        /\ pc' = [pc EXCEPT ![p] = "done"]
        /\ UNCHANGED <<error, ingressType, options, listedI, listedR, idxI, idxR>>
  /\ UNCHANGED <<provider, response, self, ingress, overlapped>>

\* user.ts:447, :451, :462, :472, :505, :528: each remote call is awaited
\* with no timeout and none is configured on the clients (user.ts:438-444),
\* so an invocation whose pending call never answers waits for ever.
NeverAnswers(p) ==
  /\ pc[p] \in {"listIngress", "listRooms", "deleteIngress", "deleteRoom",
                "createIngress", "update"}
  /\ pc' = [pc EXCEPT ![p] = "waiting"]
  /\ UNCHANGED <<provider, stream, response, locals, overlapped>>

\* ------------------------------------------------------------- provider
\* The broadcaster has the stream key of the ingress: it was provisioned
\* before any call of the model, or a call of createIngress returned it.
KeyKnown(i) ==
  \/ i.ingressId < FirstNewId
  \/ \E p \in Procs : pc[p] = "done" /\ ingress[p].ingressId = i.ingressId

\* Media starts flowing into an ingress: the provider starts it, creates its
\* room and emits ingress_started.
MediaStart ==
  /\ Len(events) < MaxQueue
  /\ \E i \in ingresses :
       /\ ~i.started
       /\ KeyKnown(i)
       /\ ingresses' = (ingresses \ {i}) \cup {[i EXCEPT !.started = TRUE]}
       /\ rooms' = rooms \cup {i.roomName}
       /\ events' = Append(events, Event("ingress_started", i.ingressId))
  /\ UNCHANGED <<nextId, stream, response, pc, locals, overlapped>>

\* Media stops: the provider ends the ingress and emits ingress_ended.
MediaStop ==
  /\ Len(events) < MaxQueue
  /\ \E i \in ingresses :
       /\ i.started
       /\ ingresses' = (ingresses \ {i}) \cup {[i EXCEPT !.started = FALSE]}
       /\ events' = Append(events, Event("ingress_ended", i.ingressId))
  /\ UNCHANGED <<rooms, nextId, stream, response, pc, locals, overlapped>>

\* The provider emits an event of another kind (room_started, ...).
EmitOther ==
  /\ Len(events) < MaxQueue
  /\ events' = Append(events, Event("room_started", Null))
  /\ UNCHANGED <<ingresses, rooms, nextId, stream, response, pc, locals, overlapped>>

\* -------------------------------------------------------------- webhook
\* An update that, once a row has the ingress id, writes to every row.
MatchingAny(id) ==
  IF \E u \in Identities : stream[u] # NoStream /\ stream[u].ingressId = id
  THEN {u \in Identities : stream[u] # NoStream}
  ELSE {}

\* route.ts:34-41 and :50-57: db.stream.update({where: {ingressId}, data});
\* Prisma throws when the id is undefined or no row matches.
Matching(id) == {u \in Identities : stream[u] # NoStream /\ stream[u].ingressId = id}

\* An update that keeps at most one row live: setting the flag of a row
\* clears it in every other row.
SetLiveExclusive(id, live) ==
  [u \in Identities |->
     IF u \in Matching(id) THEN [stream[u] EXCEPT !.isLive = live]
     ELSE IF stream[u] # NoStream /\ live THEN [stream[u] EXCEPT !.isLive = FALSE]
     ELSE stream[u]]

\* An update that never takes the flag back: a row that was live stays live.
SetLiveSticky(id, live) ==
  [u \in Identities |->
     IF u \in Matching(id) THEN [stream[u] EXCEPT !.isLive = @ \/ live] ELSE stream[u]]

\* An update that flips the flag instead of assigning it.
SetLiveToggles(id, live) ==
  [u \in Identities |->
     IF u \in Matching(id) THEN [stream[u] EXCEPT !.isLive = ~@] ELSE stream[u]]

SetLive(id, live) ==
  [u \in Identities |->
     IF u \in Matching(id) THEN [stream[u] EXCEPT !.isLive = live] ELSE stream[u]]

UpdateThrows(id) == id = Null \/ Matching(id) = {}

\* A handler without the header check of route.ts:17-20: receiver.receive
\* throws on the missing header.
POSTHeaderUnchecked(authorization, verifies, event) ==
  IF ~authorization THEN [status |-> 500, stream |-> stream]
  ELSE IF ~verifies THEN [status |-> 500, stream |-> stream]
  ELSE IF event.event = "ingress_started"
    THEN IF UpdateThrows(event.ingressId)
         THEN [status |-> 500, stream |-> stream]
         ELSE [status |-> 200, stream |-> SetLive(event.ingressId, TRUE)]
  ELSE IF event.event = "ingress_ended"
    THEN IF UpdateThrows(event.ingressId)
         THEN [status |-> 500, stream |-> stream]
         ELSE [status |-> 200, stream |-> SetLive(event.ingressId, FALSE)]
  ELSE [status |-> 200, stream |-> stream]

\* A handler that answers a request receiver.receive rejects with 400.
POSTBadRequest(authorization, verifies, event) ==
  IF ~authorization THEN [status |-> 400, stream |-> stream]
  ELSE IF ~verifies THEN [status |-> 400, stream |-> stream]
  ELSE IF event.event = "ingress_started"
    THEN IF UpdateThrows(event.ingressId)
         THEN [status |-> 500, stream |-> stream]
         ELSE [status |-> 200, stream |-> SetLive(event.ingressId, TRUE)]
  ELSE IF event.event = "ingress_ended"
    THEN IF UpdateThrows(event.ingressId)
         THEN [status |-> 500, stream |-> stream]
         ELSE [status |-> 200, stream |-> SetLive(event.ingressId, FALSE)]
  ELSE [status |-> 200, stream |-> stream]

\* A handler whose second test is an else branch: every event that is not
\* ingress_started is handled as ingress_ended.
POSTElseEnded(authorization, verifies, event) ==
  IF ~authorization THEN [status |-> 400, stream |-> stream]
  ELSE IF ~verifies THEN [status |-> 500, stream |-> stream]
  ELSE IF event.event = "ingress_started"
    THEN IF UpdateThrows(event.ingressId)
         THEN [status |-> 500, stream |-> stream]
         ELSE [status |-> 200, stream |-> SetLive(event.ingressId, TRUE)]
  ELSE IF event.event = "ingress_ended"
    THEN IF UpdateThrows(event.ingressId)
         THEN [status |-> 500, stream |-> stream]
         ELSE [status |-> 200, stream |-> SetLive(event.ingressId, FALSE)]
  ELSE IF UpdateThrows(event.ingressId)
         THEN [status |-> 500, stream |-> stream]
         ELSE [status |-> 200, stream |-> SetLive(event.ingressId, FALSE)]

\* route.ts:11-71: the status POST answers with and the stream table it leaves,
\* for a request with or without an Authorization header whose body and
\* signature receiver.receive accepts (verifies) or not, the body being event.
POST(authorization, verifies, event) ==
  IF ~authorization THEN [status |-> 400, stream |-> stream]
  ELSE IF ~verifies THEN [status |-> 500, stream |-> stream]
  ELSE IF event.event = "ingress_started"
    THEN IF UpdateThrows(event.ingressId)
         THEN [status |-> 500, stream |-> stream]
         ELSE [status |-> 200, stream |-> SetLive(event.ingressId, TRUE)]
  ELSE IF event.event = "ingress_ended"
    THEN IF UpdateThrows(event.ingressId)
         THEN [status |-> 500, stream |-> stream]
         ELSE [status |-> 200, stream |-> SetLive(event.ingressId, FALSE)]
  ELSE [status |-> 200, stream |-> stream]

\* A request is answered; n tells one request from the next.
Handle(authorization, verifies, event) ==
  LET r == POST(authorization, verifies, event)
  IN /\ response' = [n |-> 1 - response.n, authorization |-> authorization,
                     verifies |-> verifies, event |-> event, status |-> r.status]
     /\ stream' = r.stream

\* The provider delivers its oldest undelivered event, signed, for the last time.
Deliver ==
  /\ events # <<>>
  /\ Handle(TRUE, TRUE, Head(events))
  /\ events' = Tail(events)
  /\ UNCHANGED <<ingresses, rooms, nextId, pc, locals, overlapped>>

\* The provider delivers its oldest undelivered event and will deliver it
\* again (a retry or a duplicate).
Redeliver ==
  /\ events # <<>>
  /\ Handle(TRUE, TRUE, Head(events))
  /\ UNCHANGED <<provider, pc, locals, overlapped>>

EventKinds == {"ingress_started", "ingress_ended", "room_started"}

\* A request that carries no Authorization header, or one whose signature or
\* body receiver.receive rejects; its body claims any event.
Unverified ==
  /\ \E authorization \in BOOLEAN, kind \in EventKinds,
        id \in {Null} \cup {i.ingressId : i \in ingresses} :
       Handle(authorization, FALSE, Event(kind, id))
  /\ UNCHANGED <<provider, pc, locals, overlapped>>

createIngress(p) ==
  \/ GetSelf(p)
  \/ ListIngress(p)
  \/ ListRooms(p)
  \/ DeleteIngress(p)
  \/ DeleteRoom(p)
  \/ CreateIngress(p)
  \/ Update(p)

\* The whole system, with one invocation of createIngress.
Next ==
  \/ createIngress("p1")
  \/ MediaStart
  \/ MediaStop
  \/ EmitOther
  \/ Deliver
  \/ Redeliver
  \/ Unverified

Spec == Init /\ [][Next]_vars

\* Invocations of createIngress, one after the other or concurrent, and the
\* delivery of the events their deletions make the provider emit.
NextProvision ==
  \/ \E p \in Procs : createIngress(p)
  \/ Deliver

SpecProvision == Init /\ [][NextProvision]_vars

\* The provider and the webhook handler, with no invocation of createIngress.
NextWebhook ==
  \/ MediaStart
  \/ MediaStop
  \/ EmitOther
  \/ Deliver
  \/ Redeliver
  \/ Unverified

SpecWebhook == Init /\ [][NextWebhook]_vars

\* One invocation of createIngress whose remote calls answer or never do.
\* A call that is going to answer does answer, and its continuation runs.
NextNoAnswer ==
  \/ createIngress("p1")
  \/ NeverAnswers("p1")

SpecNoAnswer == Init /\ [][NextNoAnswer]_vars /\ WF_vars(createIngress("p1"))

\* ================================================================ claims
\* The step is one of invocation p.
Stepped(p) == pc'[p] # pc[p] \/ idxI'[p] # idxI[p] \/ idxR'[p] # idxR[p]

Exists(id) == \E i \in ingresses : i.ingressId = id

Foreign(i, u) == i.roomName # u /\ i.participantIdentity # u

InRoom(u) == {i \in ingresses : i.roomName = u}

Listed(p) == {listedI[p][k] : k \in DOMAIN listedI[p]}

ListedRooms(p) == {listedR[p][k] : k \in DOMAIN listedR[p]}

\* C1: whatever the listings hold, an ingress leaves the provider only in a
\* step of an invocation whose identity equals its room name or its
\* participant identity, and a room only in a step of the invocation whose
\* identity equals its name.
C1_OnlyOwnedDeleted ==
  [][ /\ \A i \in ingresses :
           ~(\E j \in ingresses' : j.ingressId = i.ingressId) =>
             \E p \in Procs :
               /\ Stepped(p)
               /\ (i.roomName = self[p] \/ i.participantIdentity = self[p])
      /\ \A r \in rooms \ rooms' :
           \E p \in Procs : Stepped(p) /\ r = self[p]
    ]_vars

\* An invocation whose listing held a foreign ingress has finished its
\* deletions: it deleted an ingress it owns and the foreign one is still there.
C1_Witness ==
  \E p \in Procs :
    /\ pc[p] = "createIngress"
    /\ \E i \in Listed(p) : Foreign(i, self[p]) /\ Exists(i.ingressId)
    /\ \E i \in Listed(p) : ~Foreign(i, self[p]) /\ ~Exists(i.ingressId)

\* C2: when an invocation that never ran concurrently with another one for
\* the same identity returns, at most one ingress has that identity as its
\* room name.
C2_AtMostOneIngress ==
  [][ \A p \in Procs :
        (pc[p] = "update" /\ pc'[p] = "done" /\ ~overlapped[p]) =>
          Cardinality({i \in ingresses' : i.roomName = self[p]}) <= 1
    ]_vars

\* An invocation that ran alone has returned after it listed two ingresses of
\* its room.
C2_Witness ==
  \E p \in Procs :
    /\ pc[p] = "done"
    /\ ~overlapped[p]
    /\ Cardinality({i \in Listed(p) : i.roomName = self[p]}) >= 2
    /\ Cardinality(InRoom(self[p])) = 1

\* C3: an invocation that waits on, or is past, the provider's createIngress
\* has run both loops of resetIngresses to the end of its listings, and every
\* listed ingress it owns is gone.
C3_CreateAfterReset ==
  \A p \in Procs :
    pc[p] \in {"createIngress", "update", "done"} =>
      /\ idxI[p] = Len(listedI[p]) + 1
      /\ idxR[p] = Len(listedR[p]) + 1
      /\ \A i \in Listed(p) : ~Foreign(i, self[p]) => ~Exists(i.ingressId)

\* An invocation waits on createIngress after it deleted an ingress and a room.
C3_Witness ==
  \E p \in Procs :
    /\ pc[p] = "createIngress"
    /\ \E i \in Listed(p) : ~Foreign(i, self[p])
    /\ self[p] \in ListedRooms(p)
    /\ self[p] \notin rooms

\* The step answers a webhook request (the one response' records).
Answered == response'.n # response.n

\* The step answers a signed, well-formed request carrying event e.
AnsweredEvent(e) ==
  /\ Answered
  /\ response'.authorization
  /\ response'.verifies
  /\ response'.event = e

LiveKinds == {"ingress_started", "ingress_ended"}

EmittedEvents ==
  {Event(k, id) : k \in LiveKinds, id \in 0..(nextId - 1)}

\* C4 (as claimed): a signed ingress_started or ingress_ended event whose
\* ingress id matches no row of the stream table is answered with status 200
\* and leaves the table as it was.
C4_UnknownIngressAnswered200 ==
  [][ \A e \in EmittedEvents :
        (AnsweredEvent(e) /\ Matching(e.ingressId) = {}) =>
          (response'.status = 200 /\ stream' = stream)
    ]_vars

\* C5: for an event whose ingress id a row holds, ingress_started is answered
\* with 200 and leaves the row live, ingress_ended is answered with 200 and
\* leaves the row not live, and an event that finds the row already in that
\* state changes nothing.
C5_StartedEndedAssign ==
  [][ \A e \in EmittedEvents :
        (AnsweredEvent(e) /\ Matching(e.ingressId) # {}) =>
          /\ response'.status = 200
          /\ \A u \in Matching(e.ingressId) :
               /\ stream'[u].isLive = (e.event = "ingress_started")
               /\ stream[u].isLive = (e.event = "ingress_started") => stream' = stream
    ]_vars

\* ingress_started was answered with 200 for the ingress of a row that is
\* live, and the provider is about to deliver the same event again.
C5_Witness ==
  /\ response.status = 200
  /\ response.event.event = "ingress_started"
  /\ events # <<>>
  /\ Head(events) = response.event
  /\ \E u \in Matching(response.event.ingressId) : stream[u].isLive

\* The ingress a row refers to is started at the provider.
Started(u) ==
  \E i \in ingresses : i.ingressId = stream[u].ingressId /\ i.started

\* C6 (as claimed): once every emitted event has been delivered and no
\* invocation of createIngress is under way, a row is live exactly when the
\* ingress it refers to is started.
C6_LiveFlagConsistent ==
  (events = <<>> /\ \A p \in Procs : ~Active(p)) =>
    \A u \in Identities : stream[u] # NoStream => (stream[u].isLive <=> Started(u))

\* The owned listed resources the sweep of invocation p has not attempted
\* and will not attempt once the pending delete call has answered.
Unattempted(p) ==
  IF pc[p] = "deleteIngress"
  THEN \/ NextIngressAt(listedI[p], idxI[p], self[p]) <= Len(listedI[p])
       \/ idxR[p] <= Len(listedR[p])
  ELSE NextRoomAt(listedR[p], idxR[p], self[p]) <= Len(listedR[p])

\* C7 (as claimed): when a delete call of the sweep fails, every other owned
\* listed ingress and room has had or still gets its own delete attempt.
C7_SweepContinues ==
  [][ \A p \in Procs :
        (pc[p] \in {"deleteIngress", "deleteRoom"} /\ pc'[p] = "failed") =>
          ~Unattempted(p)
    ]_vars

Credentials(i) == <<i.ingressId, i.url, i.streamKey>>

\* The answer lacks a url or a stream key.
Lacking(i) == i.url = Null \/ i.streamKey = Null

Stored(u) == <<stream[u].ingressId, stream[u].serverUrl, stream[u].streamKey>>

\* C8: when the provider's createIngress answers with an ingress that lacks
\* its url or its stream key, the invocation throws the incomplete-resource
\* error in that step, the stream table is left as it was, and no invocation
\* waits on the row update with such an answer.
C8_IncompleteLeavesRow ==
  [][ \A p \in Procs :
        /\ (pc[p] = "createIngress" /\ ingress'[p] # ingress[p]
              /\ Lacking(ingress'[p])) =>
             (pc'[p] = "failed" /\ error'[p] = ErrIncomplete /\ stream' = stream)
        /\ pc'[p] = "update" => ~Lacking(ingress'[p])
    ]_vars

\* An invocation threw the incomplete-resource error for an ingress the
\* provider created without a stream key, and its row holds other values.
C8_Witness ==
  \E p \in Procs :
    /\ pc[p] = "failed"
    /\ error[p] = ErrIncomplete
    /\ ingress[p] # NoIngress
    /\ ingress[p].url # Null
    /\ ingress[p].streamKey = Null
    /\ Exists(ingress[p].ingressId)
    /\ stream[self[p]] # NoStream
    /\ Stored(self[p])[1] # ingress[p].ingressId

\* The values a row can hold before any call.
InitialStored == {<<Null, Null, Null>>} \cup {Credentials(i) : i \in InitialIngresses}

\* The answers of createIngress calls that passed the validation.
Validated ==
  {Credentials(ingress[p]) :
     p \in {q \in Procs : ingress[q] # NoIngress /\ ~Lacking(ingress[q])}}

\* C9: the ingress id, url and stream key of a row are those it held before
\* any call or those of an ingress a createIngress call returned with a url
\* and a stream key.
C9_StoredWasReturned ==
  \A u \in Identities :
    stream[u] # NoStream => Stored(u) \in InitialStored \cup Validated

\* One invocation failed on an incomplete answer, and the row of its identity
\* holds the complete answer another invocation got.
C9_Witness ==
  \E p, q \in Procs :
    /\ pc[p] = "failed" /\ error[p] = ErrIncomplete
    /\ pc[q] = "done" /\ self[q] = self[p]
    /\ Stored(self[q]) = Credentials(ingress[q])
    /\ Stored(self[q]) \notin InitialStored

\* C10: when an invocation for identity u that ran alone returns, every
\* ingress of room u it listed is gone, room u is gone, the ingress it
\* created exists with room name u, and the row of u holds that ingress's id,
\* url and stream key; and no step of an invocation for u changes an ingress
\* whose room name and participant identity both differ from u, a room with
\* another name, or the row of another identity.
C10_ReprovisionFrame ==
  [][ \A p \in Procs :
        /\ (pc[p] = "update" /\ pc'[p] = "done" /\ ~overlapped[p]) =>
             /\ \A i \in Listed(p) :
                  i.roomName = self[p] =>
                    ~(\E j \in ingresses' : j.ingressId = i.ingressId)
             /\ self[p] \notin rooms'
             /\ ingress[p] \in ingresses'
             /\ ingress[p].roomName = self[p]
             /\ InRoom(self[p])' = {ingress[p]}
             /\ stream'[self[p]] = Row(ingress[p].ingressId, ingress[p].url,
                                       ingress[p].streamKey, stream[self[p]].isLive)
        /\ Stepped(p) =>
             /\ {i \in ingresses' : Foreign(i, self'[p])}
                  = {i \in ingresses : Foreign(i, self'[p])}
             /\ rooms' \ {self'[p]} = rooms \ {self'[p]}
             /\ \A u \in Identities \ {self'[p]} : stream'[u] = stream[u]
    ]_vars

\* createIngress(RTMP_INPUT) has returned for U1: its listings held ingress 1
\* and room U1, which are gone, and ingress 3 and room U2 of U2, which are
\* there; the row of U1 holds the new ingress and the row of U2 ingress 3.
C10_Witness ==
  \E p \in Procs :
    /\ pc[p] = "done" /\ self[p] = "U1" /\ ~overlapped[p]
    /\ ingressType[p] = RTMP_INPUT
    /\ 1 \in {i.ingressId : i \in Listed(p)}
    /\ 3 \in {i.ingressId : i \in Listed(p)}
    /\ ListedRooms(p) = {"U1", "U2"}
    /\ ~Exists(1) /\ Exists(3)
    /\ rooms = {"U2"}
    /\ InRoom("U1") = {ingress[p]}
    /\ Stored("U1") = Credentials(ingress[p])
    /\ Stored("U2") = <<3, 3, 3>>

\* C11: invocations for the same identity are not serialized. Whenever an
\* invocation returns, the row of its identity holds the id, url and stream
\* key of the ingress that invocation created, whatever another invocation
\* wrote before and whether or not the ingress still exists at the provider
\* (the last write wins).
C11_LastWriteWins ==
  [][ \A p \in Procs :
        (pc[p] = "update" /\ pc'[p] = "done") =>
          Stored(self[p])' = Credentials(ingress[p])
    ]_vars

\* Two concurrent invocations for one identity have returned: the row holds
\* the credentials of the ingress of the one that wrote last, an ingress the
\* other one listed and deleted before it created its own, which exists.
C11_Witness ==
  \E p, q \in Procs :
    /\ p # q
    /\ pc[p] = "done" /\ pc[q] = "done"
    /\ self[p] = self[q]
    /\ overlapped[p]
    /\ ingress[p].ingressId \in {i.ingressId : i \in Listed(q)}
    /\ ~Exists(ingress[p].ingressId)
    /\ ingress[q] \in ingresses
    /\ Stored(self[p]) = Credentials(ingress[p])
    /\ Stored(self[p]) # Credentials(ingress[q])

\* Two concurrent invocations for one identity have each created an ingress,
\* and both ingresses exist with that identity as their room name.
C11_TwoIngresses ==
  \E p, q \in Procs :
    /\ p # q
    /\ self[p] = self[q]
    /\ overlapped[p]
    /\ ingress[p] # NoIngress /\ ingress[q] # NoIngress
    /\ {ingress[p], ingress[q]} \subseteq InRoom(self[p])

\* C12: a request without an Authorization header is answered with status 400
\* and leaves the stream table as it was, whatever event its body claims.
C12_NoHeader400 ==
  [][ (Answered /\ ~response'.authorization) =>
        (response'.status = 400 /\ stream' = stream)
    ]_vars

\* A request without the header was answered with 400; its body is an
\* ingress_started event for the ingress of a row, and the row is not live.
C12_Witness ==
  /\ response.status = 400
  /\ ~response.authorization
  /\ response.event.event = "ingress_started"
  /\ \E u \in Matching(response.event.ingressId) : ~stream[u].isLive

\* C13: a request with an Authorization header whose signature or body
\* receiver.receive rejects is answered with status 500 and leaves the stream
\* table as it was.
C13_Rejected500 ==
  [][ (Answered /\ response'.authorization /\ ~response'.verifies) =>
        (response'.status = 500 /\ stream' = stream)
    ]_vars

\* A request with the header that receiver.receive rejected was answered with
\* 500; its body is an ingress_ended event for the ingress of a live row.
C13_Witness ==
  /\ response.status = 500
  /\ response.authorization
  /\ ~response.verifies
  /\ response.event.event = "ingress_ended"
  /\ \E u \in Matching(response.event.ingressId) : stream[u].isLive

\* C14: a signed, well-formed event of a kind other than ingress_started and
\* ingress_ended is answered with status 200 and leaves the stream table as
\* it was.
C14_OtherKind200 ==
  [][ (Answered /\ response'.authorization /\ response'.verifies
         /\ response'.event.event \notin LiveKinds) =>
        (response'.status = 200 /\ stream' = stream)
    ]_vars

\* A signed room_started event was answered with 200 while a row is live.
C14_Witness ==
  /\ response.status = 200
  /\ response.authorization
  /\ response.verifies
  /\ response.event.event = "room_started"
  /\ \E u \in Identities : stream[u] # NoStream /\ stream[u].isLive

\* The listing of ingresses invocation p holds is as wide as the one q holds:
\* it holds ingresses of the room of its identity only, or the listing of q
\* held one of another room too.
SameScope(q, p) ==
  \/ \A i \in Listed(p) : i.roomName = self[p]
  \/ \E i \in Listed(q) : i.roomName # self[q]

\* C15: resetIngresses for an identity that owns no ingress and has no room
\* lists nothing it owns, issues no delete call and hands over to the create
\* step with the provider as it was; and a resetIngresses that lists after one
\* for the same identity has finished, nothing having been created since and
\* the provider answering both listings with the same scope, lists nothing
\* it owns either, so it deletes nothing.
C15_ResetIdempotent ==
  [][ \A p \in Procs :
        /\ (pc[p] = "listIngress" /\ pc'[p] = "listRooms") =>
             /\ provider' = provider
             /\ (\A i \in ingresses : Foreign(i, self[p])) =>
                  \A i \in Listed(p)' : Foreign(i, self[p])
             /\ \A q \in Procs \ {p} :
                  (pc[q] = "createIngress" /\ self[q] = self[p] /\ SameScope(q, p)') =>
                    \A i \in Listed(p)' : Foreign(i, self[p])
        /\ (pc[p] = "listRooms" /\ pc'[p] \notin {"listRooms", "failed"}) =>
             /\ provider' = provider
             /\ (\/ self[p] \notin rooms
                 \/ \E q \in Procs \ {p} : pc[q] = "createIngress" /\ self[q] = self[p]) =>
                  self[p] \notin ListedRooms(p)'
             /\ ((\A i \in Listed(p) : Foreign(i, self[p]))
                   /\ self[p] \notin ListedRooms(p)') =>
                  pc'[p] = "createIngress"
    ]_vars

\* Two invocations for one identity wait on the provider's createIngress.
\* One listed an ingress it owns and its room and deleted them; the other
\* one, which listed the ingresses of all rooms afterwards, found nothing it
\* owns and deleted nothing.
C15_Witness ==
  \E p, q \in Procs :
    /\ p # q
    /\ pc[p] = "createIngress" /\ pc[q] = "createIngress"
    /\ self[p] = self[q]
    /\ \E i \in Listed(q) : ~Foreign(i, self[q])
    /\ self[q] \in ListedRooms(q)
    /\ Listed(p) # {}
    /\ \A i \in Listed(p) : Foreign(i, self[p]) /\ Exists(i.ingressId)
    /\ self[p] \notin ListedRooms(p)
    /\ \A i \in ingresses : Foreign(i, self[p])
    /\ self[p] \notin rooms

\* C16 (as claimed): a delete call of resetIngresses that fails does not make
\* the invocation of createIngress fail: no invocation that waits on
\* deleteIngress or deleteRoom ends with an error in its next step.
C16_DeleteFailureNotEscalated ==
  [][ \A p \in Procs :
        pc[p] \in {"deleteIngress", "deleteRoom"} => pc'[p] # "failed"
    ]_vars

\* C17: an invocation whose identity has no row in the stream table never
\* returns; when its row update answers, it throws the stream-not-found
\* error (or the error of a database call that failed otherwise); and a
\* missing row stays missing and the table unchanged.
C17_NoRowFails ==
  [][ /\ \A p \in Procs :
           /\ (pc[p] = "update" /\ pc'[p] # "update" /\ stream[self[p]] = NoStream) =>
                /\ pc'[p] = "failed"
                /\ error'[p] \in {ErrNotFound, "database error"}
                /\ stream' = stream
           /\ pc'[p] = "done" => stream'[self'[p]] # NoStream
      /\ \A u \in Identities : stream[u] = NoStream => stream'[u] = NoStream
    ]_vars

\* An invocation for an identity without a row threw the stream-not-found
\* error after the provider created its ingress, which exists.
C17_Witness ==
  \E p \in Procs :
    /\ pc[p] = "failed"
    /\ error[p] = ErrNotFound
    /\ stream[self[p]] = NoStream
    /\ ingress[p] \in ingresses
    /\ ~Lacking(ingress[p])

ProviderCalls ==
  {"listIngress", "listRooms", "deleteIngress", "deleteRoom", "createIngress"}

\* C18: when an invocation ends while it waits on a provider call, it ends
\* with an error, the provider's message (or, at the create step, the message
\* of the validation that rejected the answer), and the stream table is as
\* it was; an invocation that threw never returns; and an invocation returns
\* only from its row update, with no error and with the row holding its
\* ingress.
C18_FailurePropagates ==
  [][ \A p \in Procs :
        /\ (pc[p] \in ProviderCalls /\ pc'[p] \notin ProviderCalls \cup {"update"}) =>
             /\ pc'[p] = "failed"
             /\ \/ error'[p] = ErrProvider
                \/ pc[p] = "createIngress" /\ error'[p] \in {ErrNoResponse, ErrIncomplete}
             /\ stream' = stream
        /\ pc[p] = "failed" => (pc'[p] = "failed" /\ error'[p] = error[p])
        /\ (pc'[p] = "done" /\ pc[p] # "done") =>
             /\ pc[p] = "update"
             /\ error'[p] = Unset
             /\ Stored(self[p])' = Credentials(ingress[p])
    ]_vars

\* An invocation threw the provider's error after it had deleted the ingress
\* the row of its identity refers to: the row still holds that ingress.
C18_Witness ==
  \E p \in Procs :
    /\ pc[p] = "failed"
    /\ error[p] = ErrProvider
    /\ ingress[p] = NoIngress
    /\ stream[self[p]] # NoStream
    /\ stream[self[p]].ingressId \in InitialIds
    /\ ~Exists(stream[self[p]].ingressId)
    /\ \A q \in Procs \ {p} : pc[q] = "idle"

\* The last request answered was the signed event e, answered with 200.
Handled(e) ==
  /\ response.authorization
  /\ response.verifies
  /\ response.event = e
  /\ response.status = 200

\* C19: a signed ingress_started or ingress_ended event that is delivered
\* again right after it was handled is answered with 200 and leaves the
\* stream table as the first delivery left it; and no delivery of such an
\* event changes a row with another ingress id, or the ingress id, url or
\* stream key of any row.
C19_DuplicateDeliverySafe ==
  [][ \A e \in EmittedEvents :
        AnsweredEvent(e) =>
          /\ Handled(e) => (response'.status = 200 /\ stream' = stream)
          /\ \A u \in Identities :
               IF stream[u] = NoStream THEN stream'[u] = NoStream
               ELSE /\ stream'[u] # NoStream
                    /\ Stored(u)' = Stored(u)
                    /\ stream[u].ingressId # e.ingressId => stream'[u] = stream[u]
                    /\ (stream[u].ingressId = e.ingressId /\ response'.status = 200) =>
                         stream'[u].isLive = (e.event = "ingress_started")
    ]_vars

\* An even number of requests has been answered, the last one the event
\* ingress_ended for the ingress of a row, with 200; the provider still holds
\* the event for another delivery; the row is not live and another row is.
C19_Witness ==
  /\ response.n = 0
  /\ Handled(Event("ingress_ended", response.event.ingressId))
  /\ events # <<>>
  /\ Head(events) = response.event
  /\ \E u \in Matching(response.event.ingressId) :
       /\ ~stream[u].isLive
       /\ \E v \in Identities \ {u} : stream[v] # NoStream /\ stream[v].isLive

\* C20 (as claimed): an invocation whose pending remote call never answers
\* still ends with an error.
C20_TimeoutEndsInvocation ==
  \A p \in Procs : (pc[p] = "waiting") ~> (pc[p] = "failed")

\* Invocation q threw after the provider had created its ingress, and
\* invocation p, for the same identity, was called after that.
Retries(p, q) ==
  /\ q # p
  /\ pc[q] = "failed"
  /\ ingress[q] # NoIngress
  /\ self[q] = self[p]
  /\ ~overlapped[p]

\* C21: the ingress an invocation that threw left at the provider is gone
\* when the resetIngresses of the next invocation for the same identity has
\* finished, and when that invocation returns, its own ingress is the only
\* one with the identity as its room name.
C21_RetryCleansUp ==
  [][ \A p, q \in Procs :
        Retries(p, q) =>
          /\ (pc[p] \in {"listRooms", "deleteIngress", "deleteRoom"}
                /\ pc'[p] = "createIngress") =>
               ~(\E i \in ingresses' : i.ingressId = ingress[q].ingressId)
          /\ (pc[p] = "update" /\ pc'[p] = "done") =>
               /\ ~(\E i \in ingresses' : i.ingressId = ingress[q].ingressId)
               /\ {i \in ingresses' : i.roomName = self[p]} = {ingress[p]}
    ]_vars

\* An invocation threw the incomplete-resource error and left its ingress at
\* the provider; the next invocation for the same identity listed that
\* ingress, deleted it and returned, and its ingress is the only one of the
\* room.
C21_Witness ==
  \E p, q \in Procs :
    /\ Retries(p, q)
    /\ error[q] = ErrIncomplete
    /\ pc[p] = "done"
    /\ ingress[q].ingressId \in {i.ingressId : i \in Listed(p)}
    /\ ~Exists(ingress[q].ingressId)
    /\ InRoom(self[p]) = {ingress[p]}

\* C22: the flag of a row is a function of the last signed ingress_started
\* or ingress_ended event handled for its ingress id: a step that handles
\* such an event leaves the flag true for ingress_started and false for
\* ingress_ended, whatever the flag was and however often the event was
\* handled before, and every other step leaves the flag as it was.
C22_LastEventDecides ==
  [][ \A u \in Identities :
        stream[u] # NoStream =>
          /\ stream'[u] # NoStream
          /\ stream'[u].isLive =
               IF \E e \in EmittedEvents :
                    AnsweredEvent(e) /\ e.ingressId = stream[u].ingressId
               THEN response'.event.event = "ingress_started"
               ELSE stream[u].isLive
    ]_vars

\* The last request handled is ingress_started for the ingress of a row,
\* which is live; the provider has ended the ingress since and holds the
\* ingress_ended event for delivery.
C22_Witness ==
  /\ Handled(Event("ingress_started", response.event.ingressId))
  /\ events # <<>>
  /\ Head(events) = Event("ingress_ended", response.event.ingressId)
  /\ \E u \in Matching(response.event.ingressId) : stream[u].isLive

\* C23: a step that answers a webhook request, whatever the request, changes
\* at most one row, a row whose ingress id is the one of the event, and of
\* that row the flag only: it adds and removes no row and leaves the ingress
\* id, url and stream key of every row, and every row with another ingress
\* id, as they were.
C23_WebhookFrame ==
  [][ Answered =>
        /\ Cardinality({u \in Identities : stream'[u] # stream[u]}) <= 1
        /\ \A u \in Identities :
             IF stream[u] = NoStream THEN stream'[u] = NoStream
             ELSE /\ stream'[u] =
                       Row(stream[u].ingressId, stream[u].serverUrl,
                           stream[u].streamKey, stream'[u].isLive)
                  /\ stream'[u].isLive # stream[u].isLive =>
                       stream[u].ingressId = response'.event.ingressId
    ]_vars

\* ingress_started was handled for the ingress of a row, which is live, and
\* the row of another ingress is live as it was.
C23_Witness ==
  /\ Handled(Event("ingress_started", response.event.ingressId))
  /\ \E u \in Matching(response.event.ingressId) :
       /\ stream[u].isLive
       /\ \E v \in Identities \ {u} :
            /\ stream[v] # NoStream
            /\ stream[v].ingressId \notin {Null, stream[u].ingressId}
            /\ stream[v].isLive

\* C24: a step of an invocation of createIngress changes the stream table
\* only when the invocation returns, and then only the ingress id, url and
\* stream key of the row of its identity: the flag of that row, the rows of
\* the other identities and the set of identities that have a row are as
\* they were, whether the invocation returns or throws.
C24_ProvisionWritesCredentialsOnly ==
  [][ \A p \in Procs :
        Stepped(p) =>
          /\ \A u \in Identities :
               /\ (stream[u] = NoStream) = (stream'[u] = NoStream)
               /\ stream[u] # NoStream => stream'[u].isLive = stream[u].isLive
               /\ u # self'[p] => stream'[u] = stream[u]
          /\ stream' # stream => (pc[p] = "update" /\ pc'[p] = "done")
    ]_vars

\* An invocation has returned: the row of its identity holds its ingress and
\* is live as before, and the row of the other identity holds the ingress it
\* held before any call.
C24_Witness ==
  \E p \in Procs :
    /\ pc[p] = "done"
    /\ Stored(self[p]) = Credentials(ingress[p])
    /\ stream[self[p]].isLive
    /\ \E v \in Identities \ {self[p]} :
         /\ stream[v] # NoStream
         /\ stream[v].ingressId \in InitialIds
         /\ stream[v].isLive

Follows(p, q) ==
  /\ q # p
  /\ pc[q] = "done"
  /\ self[q] = self[p]
  /\ ~overlapped[p]

\* C26: every ingress the provider creates for an invocation has the
\* identity of the invocation as its room name and as its participant
\* identity; and when the resetIngresses of an invocation called after one
\* that returned for the same identity has finished, the ingress of that one
\* is gone and no ingress has the identity as its room name.
C26_CreatedIsFoundAndDeleted ==
  [][ \A p \in Procs :
        /\ \A i \in ingresses' :
             (Stepped(p) /\ ~(\E j \in ingresses : j.ingressId = i.ingressId)) =>
               (i.roomName = self[p] /\ i.participantIdentity = self[p])
        /\ \A q \in Procs :
             (/\ Follows(p, q)
              /\ pc[p] \in {"listRooms", "deleteIngress", "deleteRoom"}
              /\ pc'[p] = "createIngress") =>
               /\ ~(\E i \in ingresses' : i.ingressId = ingress[q].ingressId)
               /\ {i \in ingresses' : i.roomName = self[p]} = {}
    ]_vars

\* An invocation returned with its ingress; the next one for the same
\* identity listed that ingress, deleted it and waits on the provider's
\* createIngress, and no ingress has the identity as its room name.
C26_Witness ==
  \E p, q \in Procs :
    /\ Follows(p, q)
    /\ pc[p] = "createIngress"
    /\ ingress[q].ingressId \in {i.ingressId : i \in Listed(p)}
    /\ ingress[q].roomName = self[p]
    /\ ingress[q].participantIdentity = self[p]
    /\ ~Exists(ingress[q].ingressId)
    /\ InRoom(self[p]) = {}

\* The row of u refers to an ingress that is not at the provider.
Dangling(u) ==
  /\ stream[u] # NoStream
  /\ stream[u].ingressId # Null
  /\ ~Exists(stream[u].ingressId)

\* C27: when the create step of an invocation fails, the step leaves the
\* stream table and the rooms as they were and brings back no ingress (the
\* only ingress it can add is the incomplete one the provider created); no
\* step ever brings back an ingress that was deleted; and a row that refers
\* to an ingress that is gone keeps its ingress id, url and stream key until
\* an invocation for its identity returns.
C27_NoRollback ==
  [][ /\ \A p \in Procs :
           (pc[p] = "createIngress" /\ pc'[p] = "failed") =>
             /\ stream' = stream
             /\ rooms' = rooms
             /\ ingresses \subseteq ingresses'
             /\ \A i \in ingresses' \ ingresses : i.ingressId = nextId /\ Lacking(i)
      /\ \A i \in ingresses' :
           i.ingressId < nextId => \E j \in ingresses : j.ingressId = i.ingressId
      /\ \A u \in Identities :
           Dangling(u) =>
             \/ Stored(u)' = Stored(u) /\ Dangling(u)'
             \/ \E p \in Procs : self[p] = u /\ pc[p] = "update" /\ pc'[p] = "done"
    ]_vars

\* An invocation deleted the ingress and the room of its identity and threw
\* because the provider's createIngress answered nothing: the row still holds
\* the deleted ingress, and the identity has no ingress and no room.
C27_Witness ==
  \E p \in Procs :
    /\ pc[p] = "failed"
    /\ error[p] = ErrNoResponse
    /\ Dangling(self[p])
    /\ Stored(self[p]) \in InitialStored
    /\ InRoom(self[p]) = {}
    /\ self[p] \notin rooms
    /\ \A q \in Procs \ {p} : pc[q] = "idle"

\* C28: the options an invocation passed to the provider's createIngress
\* name the user and have the identity as room name and participant
\* identity whatever the input type; for WHIP_INPUT they set
\* bypassTranscoding and leave video and audio undefined; for every other
\* input type they do not set bypassTranscoding and carry the camera track
\* with the H264_1080P_30FPS_3_LAYERS preset and the microphone track with
\* the OPUS_STEREO_96KBPS preset.
C28_OptionsByInputType ==
  \A p \in Procs :
    pc[p] \in {"update", "done"} =>
      /\ ingressType[p] \in IngressInputs
      /\ options[p].name = Username(self[p])
      /\ options[p].participantName = Username(self[p])
      /\ options[p].roomName = self[p]
      /\ options[p].participantIdentity = self[p]
      /\ IF ingressType[p] = WHIP_INPUT
         THEN /\ options[p].bypassTranscoding
              /\ options[p].video = NoTrack
              /\ options[p].audio = NoTrack
         ELSE /\ ~options[p].bypassTranscoding
              /\ options[p].video.source = "CAMERA"
              /\ options[p].video.preset = "H264_1080P_30FPS_3_LAYERS"
              /\ options[p].audio.source = "MICROPHONE"
              /\ options[p].audio.preset = "OPUS_STEREO_96KBPS"

\* One invocation has passed the options of WHIP_INPUT and another one, for
\* the same identity, those of URL_INPUT: they differ in bypassTranscoding,
\* video and audio only.
C28_Witness ==
  \E p, q \in Procs :
    /\ pc[p] = "done" /\ pc[q] = "done"
    /\ self[p] = self[q]
    /\ ingressType[p] = WHIP_INPUT /\ ingressType[q] = URL_INPUT
    /\ options[p] = [options[q] EXCEPT !.bypassTranscoding = TRUE,
                                       !.video = NoTrack, !.audio = NoTrack]

====
